---- MODULE Spec2Model ----
(***************************************************************************)
(* Sardine: the MIDI pulse clock (sardine/clock/Clock.py), its registry of *)
(* AsyncRunners and the cooperative asyncio tasks that drive them.         *)
(*                                                                         *)
(* Every action below is one uninterrupted span of Python code: either a   *)
(* synchronous method called by the host (start, stop, reset, set_bpm,     *)
(* schedule, remove) or the code an asyncio task runs between two awaits.  *)
(* Durations are integers, in microseconds.                                *)
(***************************************************************************)
EXTENDS Integers, Sequences, FiniteSets

\* ------------------------------------------------------------------ bounds
MaxBeatsPerBar == 4      \* beat_per_bar is drawn from 1..MaxBeatsPerBar
MaxStartTasks  == 2      \* _send_start tasks created and not yet run
MaxLoops       == 2      \* run_clock tasks alive at once
MaxDrift       == 11000  \* ticks are followed while |delta| <= MaxDrift
MaxRunners     == 2      \* AsyncRunner objects alive at once

\* ---------------------------------------------------------------- constants
ppqn == 48

DefaultBpm        == 120
DefaultBeatPerBar == 4

\* ticks followed by the clock-only specification: one bar and two ticks
MaxTicks == ppqn * MaxBeatsPerBar + 2
MaxJitter      == 1      \* a sleep overshoots its duration by 0 or MaxJitter
TimingTicks    == 3      \* ticks followed by the timing and sink specifications

Names       == {"a", "b"}          \* func.__name__ of the scheduled functions
None        == [func |-> "None", args |-> 0]
F1          == [func |-> "f1", args |-> 1]
F2          == [func |-> "f2", args |-> 2]
Invocations == {F1, F2}
BpmInputs   == {1, 60, 800}
Jitters     == {0, MaxJitter}
\* durations handed to nap(), in quarters of a beat
NapDurations == {0, 1, 4}
\* ticks followed while a task awaits nap() or sync()
WaitTicks == ppqn + 2
\* tempo requests around both ends of the accepted interval
TimingBpmInputs == {0, 1, 2, 60, 799, 800, 801}

VARIABLES
    \* Clock fields
    running, bpm, delta, phase, phase_gen, beat_per_bar, current_beat,
    current_beat_gen, elapsed_bars, tick_duration, tick_time,
    runners,        \* Clock.runners: the slots of the registered runners, in
                    \* the dict's insertion order; the key is heap[slot].name
    \* asyncio tasks
    start_tasks,    \* number of _send_start tasks created and not yet run
    loops,          \* run_clock tasks: slot -> [pc, slept]
    heap,           \* AsyncRunner objects and their tasks: slot -> record
    \* observations
    sink,           \* the calls the last step made to the MIDI sink, in order
    err,            \* the exception the last step raised, "none" if none
    overwrote,      \* the pending invocation the last step's push replaced
    starts_since_stop, \* start events sent since construction or the last stop()
    \* a task awaiting nap() or sync()
    waiter          \* [op, pc, mark]: the call, its position, its target

clockVars  == <<running, bpm, delta, phase, phase_gen, beat_per_bar, current_beat,
                current_beat_gen, elapsed_bars, tick_duration, tick_time>>
vars == <<running, bpm, delta, phase, phase_gen, beat_per_bar, current_beat,
          current_beat_gen, elapsed_bars, tick_duration, tick_time, runners,
          start_tasks, loops, heap, sink, err, overwrote, starts_since_stop,
          waiter>>

\* ------------------------------------------------------------------ helpers

\* ((60 / bpm) / ppqn) - delta, in microseconds
GetTickDuration(b, d) == (60000000 \div (b * ppqn)) - d

\* itertools.cycle(range(1, n + 1)): the generator is the index of the value
\* next() returns; CycleNext is that value, CycleAdvance the generator after it
CycleNext(gen) == gen + 1
CycleAdvance(gen, n) == (gen + 1) % n

\* time.perf_counter() difference over asyncio.sleep(d): a sleep of a negative
\* duration returns at once; the event loop may resume the task late
Elapsed(d, jitter) == (IF d > 0 THEN d ELSE 0) + jitter

FreeRunner == [name |-> "", next |-> None, stop |-> FALSE, pc |-> "free",
               cur |-> None]
\* no call of nap() or sync() under way
NoCall == [op |-> "none", pc |-> "idle", mark |-> 0]

NoLoop == [pc |-> "none", slept |-> 0]

\* Clock.__init__
ClockInit(b, bpb) ==
    /\ runners = <<>>
    /\ running = FALSE
    /\ bpm = b
    /\ delta = 0
    /\ phase_gen = 0
    /\ phase = 0
    /\ beat_per_bar = bpb
    /\ current_beat_gen = 0
    /\ current_beat = 0
    /\ elapsed_bars = 0
    /\ tick_duration = GetTickDuration(b, 0)
    /\ tick_time = 0

TasksInit ==
    /\ start_tasks = 0
    /\ loops = [i \in 1..MaxLoops |-> NoLoop]
    /\ heap = [r \in 1..MaxRunners |-> FreeRunner]
    /\ sink = <<>>
    /\ err = "none"
    /\ overwrote = None
    /\ starts_since_stop = 0
    /\ waiter = NoCall

\* c = Clock()
Init == ClockInit(DefaultBpm, DefaultBeatPerBar) /\ TasksInit

\* Clock(beat_per_bar = n)
InitClock == (\E bpb \in 1..MaxBeatsPerBar : ClockInit(DefaultBpm, bpb)) /\ TasksInit

\* Clock.init_reset(runners, bpm, midi, beat_per_bar): the runners argument is
\* not used, the table is replaced by an empty dict
InitResetRunners == <<>>

\* init_reset without its `self.phase = 0`
InitResetKeepsPhase(b, bpb) ==
    /\ runners' = InitResetRunners
    /\ bpm' = b
    /\ delta' = 0
    /\ phase_gen' = 0
    /\ phase' = phase
    /\ beat_per_bar' = bpb
    /\ current_beat_gen' = 0
    /\ current_beat' = 0
    /\ elapsed_bars' = 0
    /\ tick_duration' = GetTickDuration(b, 0)
    /\ tick_time' = 0

InitReset(b, bpb) ==
    /\ runners' = InitResetRunners
    /\ bpm' = b
    /\ delta' = 0
    /\ phase_gen' = 0
    /\ phase' = 0
    /\ beat_per_bar' = bpb
    /\ current_beat_gen' = 0
    /\ current_beat' = 0
    /\ elapsed_bars' = 0
    /\ tick_duration' = GetTickDuration(b, 0)
    /\ tick_time' = 0

\* ---------------------------------------------------------------- the clock

\* the bpm setter with a closed upper end: `if 1 < new_bpm <= 800`
SetBpmInclusive(v) ==
    /\ IF 1 < v /\ v <= 800
         THEN bpm' = v /\ tick_duration' = GetTickDuration(v, delta)
         ELSE UNCHANGED <<bpm, tick_duration>>
    /\ sink' = <<>>
    /\ err' = "none"
    /\ overwrote' = None
    /\ UNCHANGED <<running, delta, phase, phase_gen, beat_per_bar, current_beat,
                   current_beat_gen, elapsed_bars, tick_time, runners,
                   start_tasks, loops, heap, starts_since_stop, waiter>>

\* Clock.set_bpm(new_bpm)
SetBpm(v) ==
    /\ IF 1 < v /\ v < 800
         THEN bpm' = v /\ tick_duration' = GetTickDuration(v, delta)
         ELSE UNCHANGED <<bpm, tick_duration>>
    /\ sink' = <<>>
    /\ err' = "none"
    /\ overwrote' = None
    /\ UNCHANGED <<running, delta, phase, phase_gen, beat_per_bar, current_beat,
                   current_beat_gen, elapsed_bars, tick_time, runners,
                   start_tasks, loops, heap, starts_since_stop, waiter>>

\* Clock.start(): with a runner registered, remove(runner) reads runner.__name__,
\* which an AsyncRunner does not have, after the first runner's flag is cleared
StartCreatesTask == ~running

Start ==
    /\ sink' = <<>>
    /\ overwrote' = None
    /\ IF runners # <<>>
         THEN /\ heap' = [heap EXCEPT ![Head(runners)].stop = FALSE]
              /\ err' = "AttributeError"
              /\ UNCHANGED start_tasks
         ELSE /\ err' = "none"
              /\ IF StartCreatesTask
                   THEN /\ start_tasks < MaxStartTasks
                        /\ start_tasks' = start_tasks + 1
                   ELSE UNCHANGED start_tasks
              /\ UNCHANGED heap
    /\ UNCHANGED <<clockVars, runners, loops, starts_since_stop, waiter>>

\* Clock.reset()
Reset ==
    /\ InitReset(bpm, beat_per_bar)
    /\ sink' = <<>>
    /\ err' = "none"
    /\ overwrote' = None
    /\ UNCHANGED <<running, start_tasks, loops, heap, starts_since_stop, waiter>>

\* the sink calls of Clock.stop(): self._midi.send_stop() and
\* self._midi.send(mido.Message('stop'))
StopEvents == <<"stop", "stop">>

\* Clock.stop()
Stop ==
    /\ heap' = [r \in 1..MaxRunners |->
                  IF \E k \in 1..Len(runners) : runners[k] = r
                    THEN [heap[r] EXCEPT !.stop = TRUE] ELSE heap[r]]
    /\ running' = FALSE
    /\ sink' = StopEvents
    /\ InitReset(bpm, beat_per_bar)
    /\ err' = "none"
    /\ overwrote' = None
    /\ starts_since_stop' = 0
    /\ UNCHANGED <<start_tasks, loops, waiter>>

\* the first part of _clock_update, up to its await asyncio.sleep
ClockUpdateBegin(i, d) ==
    /\ tick_duration' = GetTickDuration(bpm, d)
    /\ delta' = 0
    /\ loops' = [loops EXCEPT ![i] = [pc |-> "sleep", slept |-> GetTickDuration(bpm, d)]]

\* Clock._send_start(initial=True), run as a task
\* Clock.stop() with a sink that raises in its k-th call: the exception leaves
\* stop() there, before init_reset
StopSinkFails(k) ==
    /\ heap' = [r \in 1..MaxRunners |->
                  IF \E n \in 1..Len(runners) : runners[n] = r
                    THEN [heap[r] EXCEPT !.stop = TRUE] ELSE heap[r]]
    /\ running' = FALSE
    /\ sink' = SubSeq(StopEvents, 1, k)
    /\ err' = "SinkError"
    /\ overwrote' = None
    /\ starts_since_stop' = 0
    /\ UNCHANGED <<bpm, delta, phase, phase_gen, beat_per_bar, current_beat,
                   current_beat_gen, elapsed_bars, tick_duration, tick_time,
                   runners, start_tasks, loops, waiter>>

\* the task of Clock._send_start(initial=True) with a sink that raises in
\* send(): the exception ends the task at its first statement
SendStartSinkFails ==
    /\ start_tasks > 0
    /\ start_tasks' = start_tasks - 1
    /\ sink' = <<"start">>
    /\ err' = "SinkError"
    /\ overwrote' = None
    /\ UNCHANGED <<clockVars, runners, loops, heap, starts_since_stop, waiter>>

SendStart ==
    /\ start_tasks > 0
    /\ \E i \in 1..MaxLoops :
         /\ loops[i].pc = "none"
         /\ \A k \in 1..(i - 1) : loops[k].pc # "none"
         /\ loops' = [loops EXCEPT ![i].pc = "new"]
    /\ start_tasks' = start_tasks - 1
    /\ sink' = <<"start">>
    /\ running' = TRUE
    /\ starts_since_stop' = starts_since_stop + 1
    /\ err' = "none"
    /\ overwrote' = None
    /\ UNCHANGED <<bpm, delta, phase, phase_gen, beat_per_bar, current_beat,
                   current_beat_gen, elapsed_bars, tick_duration, tick_time,
                   runners, heap, waiter>>

\* Clock.run_clock(), from the task's first step to its first await
RunClock(i) ==
    /\ loops[i].pc = "new"
    /\ IF running
         THEN ClockUpdateBegin(i, delta)
         ELSE /\ loops' = [loops EXCEPT ![i] = NoLoop]
              /\ UNCHANGED <<tick_duration, delta>>
    /\ sink' = <<>>
    /\ err' = "none"
    /\ overwrote' = None
    /\ UNCHANGED <<running, bpm, phase, phase_gen, beat_per_bar, current_beat,
                   current_beat_gen, elapsed_bars, tick_time, runners,
                   start_tasks, heap, starts_since_stop, waiter>>

\* the phase left for later: tick_time is advanced and the phase is not
UpdatePhaseDeferred ==
    UNCHANGED <<phase, phase_gen>>

\* Clock._update_phase
UpdatePhase ==
    /\ phase' = CycleNext(phase_gen)
    /\ phase_gen' = CycleAdvance(phase_gen, ppqn)

\* _update_current_beat called on every tick, its `if self.phase == 1` lost
UpdateCurrentBeatEveryTick ==
    /\ current_beat' = CycleNext(current_beat_gen)
    /\ current_beat_gen' = CycleAdvance(current_beat_gen, beat_per_bar)

\* Clock._update_current_beat, under `if self.phase == 1`
UpdateCurrentBeat ==
    IF phase' = 1
      THEN /\ current_beat' = CycleNext(current_beat_gen)
           /\ current_beat_gen' = CycleAdvance(current_beat_gen, beat_per_bar)
      ELSE UNCHANGED <<current_beat, current_beat_gen>>

\* the bar counted on every beat: `if self.phase == 1: self.elapsed_bars += 1`
UpdateElapsedBarsEveryBeat ==
    elapsed_bars' = IF phase' = 1 THEN elapsed_bars + 1 ELSE elapsed_bars

\* `if self.phase == 1 and self.current_beat == 1: self.elapsed_bars += 1`
UpdateElapsedBars ==
    elapsed_bars' = IF phase' = 1 /\ current_beat' = 1
                      THEN elapsed_bars + 1 ELSE elapsed_bars

\* the pulse dispatched on the ticks that find an odd phase
ClockPulseOdd == IF phase % 2 = 1 THEN <<"clock">> ELSE <<>>

\* the pulse dispatched by a tick: create_task(send_clock_async()) when the
\* phase read after the sleep is even
ClockPulse == IF phase % 2 = 0 THEN <<"clock">> ELSE <<>>

\* _clock_update from the return of its sleep to its end, then the loop test of
\* run_clock and, while running, the next _clock_update up to its sleep
Tick(i, jitter, limit) ==
    /\ loops[i].pc = "sleep"
    /\ tick_time < limit
    /\ sink' = ClockPulse
    /\ tick_time' = tick_time + 1
    /\ UpdatePhase
    /\ UpdateCurrentBeat
    /\ UpdateElapsedBars
    /\ LET d == Elapsed(loops[i].slept, jitter) - tick_duration IN
         /\ d \in (0 - MaxDrift)..MaxDrift
         /\ IF running
              THEN ClockUpdateBegin(i, d)
              ELSE /\ delta' = d
                   /\ loops' = [loops EXCEPT ![i] = NoLoop]
                   /\ UNCHANGED tick_duration
    /\ err' = "none"
    /\ overwrote' = None
    /\ UNCHANGED <<running, bpm, beat_per_bar, runners, start_tasks, heap,
                   starts_since_stop, waiter>>

\* a tick of one of the run_clock tasks, its sleep resumed on time
ClockTick == \E i \in 1..MaxLoops : Tick(i, 0, MaxTicks)

\* ------------------------------------------------- the registry and runners

\* self.runners.get(name): the slot of the runner registered under name, 0 if none
Get(name) ==
    IF \E k \in 1..Len(runners) : heap[runners[k]].name = name
      THEN runners[CHOOSE k \in 1..Len(runners) : heap[runners[k]].name = name]
      ELSE 0

\* the table without the entry of runner r, the order of the other keys kept
Without(seq, r) == SelectSeq(seq, LAMBDA x : x # r)

\* AsyncRunner(clock)
NewRunner(name) == [name |-> name, next |-> None, stop |-> FALSE, pc |-> "new",
                    cur |-> None]

\* AsyncRunner.push(func, *args, **kwargs): the pending invocation is overwritten
RunnerPush(rec, inv) == [rec EXCEPT !.next = inv]

\* AsyncRunner.started()
RunnerStarted(rec) == rec.pc # "new"

\* AsyncRunner.start(): the runner's task is created
RunnerStart(rec) == [rec EXCEPT !.pc = "loop"]

\* AsyncRunner.stop()
RunnerStop(rec) == [rec EXCEPT !.stop = TRUE]

\* schedule without its `elif not self.running`
ScheduleGuardNotRunning(coro) == IF ~coro THEN "TypeError" ELSE "none"

\* the checks that open Clock.schedule: coro is inspect.iscoroutinefunction(func)
ScheduleGuard(coro) == IF ~coro THEN "TypeError"
                       ELSE IF ~running THEN "RuntimeError" ELSE "none"

\* schedule pushing only into an empty slot: the first write wins
PushIfEmpty(rec, inv) ==
    IF rec.next # None THEN rec
    ELSE IF RunnerStarted(RunnerPush(rec, inv))
      THEN RunnerPush(rec, inv)
      ELSE RunnerStart(RunnerPush(rec, inv))

\* runner.push(func, *args, **kwargs), then runner.start() unless started
PushAndStart(rec, inv) ==
    IF RunnerStarted(RunnerPush(rec, inv))
      THEN RunnerPush(rec, inv)
      ELSE RunnerStart(RunnerPush(rec, inv))

\* Clock.schedule(func, *args, **kwargs), func.__name__ = name
Schedule(name, inv, coro) ==
    /\ sink' = <<>>
    /\ err' = ScheduleGuard(coro)
    /\ IF ScheduleGuard(coro) # "none"
         THEN /\ overwrote' = None
              /\ UNCHANGED <<runners, heap>>
         ELSE IF Get(name) = 0
           THEN \E r \in 1..MaxRunners :
                  /\ heap[r].pc = "free"
                  /\ \A k \in 1..(r - 1) : heap[k].pc # "free"
                  /\ runners' = Append(runners, r)
                  /\ heap' = [heap EXCEPT ![r] = PushAndStart(NewRunner(name), inv)]
                  /\ overwrote' = None
           ELSE /\ heap' = [heap EXCEPT ![Get(name)] = PushAndStart(heap[Get(name)], inv)]
                /\ overwrote' = heap[Get(name)].next
                /\ UNCHANGED runners
    /\ UNCHANGED <<clockVars, start_tasks, loops, starts_since_stop, waiter>>

\* remove deleting the table entry itself: `del self.runners[func.__name__]`
RemoveDeletesEntry(name) ==
    /\ sink' = <<>>
    /\ overwrote' = None
    /\ IF Get(name) = 0
         THEN /\ err' = "KeyError"
              /\ UNCHANGED runners
         ELSE /\ err' = "none"
              /\ runners' = Without(runners, Get(name))
    /\ UNCHANGED <<clockVars, heap, start_tasks, loops, starts_since_stop, waiter>>

\* remove cancelling the runner's task as well: the invocation in flight is cut
RemoveCancelsTask(name) ==
    /\ sink' = <<>>
    /\ overwrote' = None
    /\ IF Get(name) = 0
         THEN /\ err' = "KeyError"
              /\ UNCHANGED heap
         ELSE /\ err' = "none"
              /\ heap' = [heap EXCEPT ![Get(name)] =
                            [RunnerStop(heap[Get(name)]) EXCEPT !.pc = "loop", !.cur = None]]
    /\ UNCHANGED <<clockVars, runners, start_tasks, loops, starts_since_stop, waiter>>

\* Clock.remove(func), func.__name__ = name
Remove(name) ==
    /\ sink' = <<>>
    /\ overwrote' = None
    /\ IF Get(name) = 0
         THEN /\ err' = "KeyError"
              /\ UNCHANGED heap
         ELSE /\ err' = "none"
              /\ heap' = [heap EXCEPT ![Get(name)] = RunnerStop(heap[Get(name)])]
    /\ UNCHANGED <<clockVars, runners, start_tasks, loops, starts_since_stop, waiter>>

\* the runner's task at an iteration boundary with its stop flag set: it
\* deregisters itself and exits
RunnerExit(r) ==
    /\ heap[r].pc = "loop"
    /\ heap[r].stop
    /\ runners' = Without(runners, r)
    /\ heap' = [heap EXCEPT ![r] = FreeRunner]
    /\ sink' = <<>>
    /\ err' = "none"
    /\ overwrote' = None
    /\ UNCHANGED <<clockVars, start_tasks, loops, starts_since_stop, waiter>>

\* the runner's task at an iteration boundary with a pending invocation: it
\* takes and clears it and invokes the action
RunnerTakes(rec) == ~rec.stop /\ rec.next # None

RunnerInvoke(r) ==
    /\ heap[r].pc = "loop"
    /\ RunnerTakes(heap[r])
    /\ heap' = [heap EXCEPT ![r].pc = "inflight", ![r].cur = heap[r].next,
                             ![r].next = None]
    /\ sink' = <<>>
    /\ err' = "none"
    /\ overwrote' = None
    /\ UNCHANGED <<clockVars, runners, start_tasks, loops, starts_since_stop, waiter>>

\* the invoked action returns: the runner is back at its iteration boundary
ActionReturn(r) ==
    /\ heap[r].pc = "inflight"
    /\ heap' = [heap EXCEPT ![r].pc = "loop", ![r].cur = None]
    /\ sink' = <<>>
    /\ err' = "none"
    /\ overwrote' = None
    /\ UNCHANGED <<clockVars, runners, start_tasks, loops, starts_since_stop, waiter>>

\* ------------------------------------------------------------ nap and sync

\* nap leaving its loop one tick early: `while c.tick_time + 1 < duration`
NapWaitsEarly(target) == tick_time + 1 < target

\* nap's loop condition: `while c.tick_time < duration`
NapWaits(target) == tick_time < target

\* `await nap(duration)`, duration = q / 4: up to the first sleep, or to the
\* return when the loop is not entered
NapCall(q) ==
    /\ waiter.pc = "idle"
    /\ LET duration == tick_time + (q * ppqn) \div 4 IN
         /\ duration <= WaitTicks
         /\ waiter' = [op |-> "nap", mark |-> duration,
                       pc |-> IF NapWaits(duration) THEN "waiting" ELSE "resumed"]
    /\ sink' = <<>>
    /\ err' = "none"
    /\ overwrote' = None
    /\ UNCHANGED <<clockVars, runners, start_tasks, loops, heap,
                   starts_since_stop>>

\* nap's sleep is over: the loop condition is read again
NapPoll ==
    /\ waiter.op = "nap"
    /\ waiter.pc = "waiting"
    /\ waiter' = [waiter EXCEPT
                    !.pc = IF NapWaits(waiter.mark) THEN "waiting" ELSE "resumed"]
    /\ sink' = <<>>
    /\ err' = "none"
    /\ overwrote' = None
    /\ UNCHANGED <<clockVars, runners, start_tasks, loops, heap,
                   starts_since_stop>>

\* sync's loop condition: `while c.phase != 1 and c.elapsed_bars != cur_bar + 1`
SyncWaits(cur_bar) == phase # 1 /\ elapsed_bars # cur_bar + 1

\* `await sync()`: up to the first sleep, or to the return
SyncCall ==
    /\ waiter.pc = "idle"
    /\ waiter' = [op |-> "sync", mark |-> elapsed_bars,
                  pc |-> IF SyncWaits(elapsed_bars) THEN "waiting" ELSE "resumed"]
    /\ sink' = <<>>
    /\ err' = "none"
    /\ overwrote' = None
    /\ UNCHANGED <<clockVars, runners, start_tasks, loops, heap,
                   starts_since_stop>>

\* sync's sleep is over: the loop condition is read again
SyncPoll ==
    /\ waiter.op = "sync"
    /\ waiter.pc = "waiting"
    /\ waiter' = [waiter EXCEPT
                    !.pc = IF SyncWaits(waiter.mark) THEN "waiting" ELSE "resumed"]
    /\ sink' = <<>>
    /\ err' = "none"
    /\ overwrote' = None
    /\ UNCHANGED <<clockVars, runners, start_tasks, loops, heap,
                   starts_since_stop>>

\* ----------------------------------------------------------- specifications

\* the clock alone: the host never schedules anything
NextClock ==
    \/ Start
    \/ Stop
    \/ Reset
    \/ \E v \in BpmInputs : SetBpm(v)
    \/ SendStart
    \/ \E i \in 1..MaxLoops : RunClock(i)
    \/ ClockTick

SpecClock == InitClock /\ [][NextClock]_vars

\* the registry and its runners: the host API and the tasks of _send_start and of
\* the runners. The steps of run_clock change ClockState counters only, which
\* no action of the registry reads, and are not followed here.
NextRegistry(names, invs) ==
    \/ Start
    \/ Stop
    \/ Reset
    \/ SendStart
    \/ \E n \in names, inv \in invs, coro \in BOOLEAN : Schedule(n, inv, coro)
    \/ \E n \in Names : Remove(n)
    \/ \E r \in 1..MaxRunners : RunnerExit(r)
    \/ \E r \in 1..MaxRunners : RunnerInvoke(r)
    \/ \E r \in 1..MaxRunners : ActionReturn(r)

\* two names, one function per name
NextNames == NextRegistry(Names, {F1})
SpecRegistry == Init /\ [][NextNames]_vars

\* one name, redefined: two functions pushed under it
NextPush == NextRegistry({"a"}, Invocations)
SpecPush == Init /\ [][NextPush]_vars

\* the timing of the tick loop: sleeps overshoot, the tempo is changed before,
\* between and during ticks, the clock is never stopped or reset
TimedTick == \E i \in 1..MaxLoops, j \in Jitters : Tick(i, j, TimingTicks)

NextTiming ==
    \/ Start
    \/ \E v \in TimingBpmInputs : SetBpm(v)
    \/ SendStart
    \/ \E i \in 1..MaxLoops : RunClock(i)
    \/ TimedTick

SpecTiming == Init /\ [][NextTiming]_vars

\* the clock over a sink whose calls may raise
SinkTick == \E i \in 1..MaxLoops : Tick(i, 0, TimingTicks)

NextSink ==
    \/ Start
    \/ Stop
    \/ \E k \in 1..Len(StopEvents) : StopSinkFails(k)
    \/ SendStart
    \/ SendStartSinkFails
    \/ \E i \in 1..MaxLoops : RunClock(i)
    \/ SinkTick

SpecSink == Init /\ [][NextSink]_vars

\* a task awaiting nap() or sync() beside a clock that is started and never
\* stopped or reset. The event loop runs every task that is ready: the tasks
\* of _send_start and run_clock and the sleeps of nap and sync get their turn.
WaitTick == \E i \in 1..MaxLoops : Tick(i, 0, WaitTicks)

NextWait ==
    \/ Start
    \/ SendStart
    \/ \E i \in 1..MaxLoops : RunClock(i)
    \/ WaitTick
    \/ \E q \in NapDurations : NapCall(q)
    \/ NapPoll
    \/ SyncCall
    \/ SyncPoll

SpecWait ==
    /\ Init
    /\ [][NextWait]_vars
    /\ WF_vars(SendStart)
    /\ WF_vars(\E i \in 1..MaxLoops : RunClock(i))
    /\ WF_vars(WaitTick)
    /\ WF_vars(NapPoll)
    /\ WF_vars(SyncPoll)

\* the whole program
Next ==
    \/ NextClock
    \/ NextRegistry(Names, Invocations)
    \/ NextTiming
    \/ NextSink
    \/ NextWait

Spec == Init /\ [][Next]_vars

\* ------------------------------------------------------------------ claims

Registered(r) == \E k \in 1..Len(runners) : runners[k] = r

\* a step in which runner r starts an invocation
Invokes(r) == heap[r].pc # "inflight" /\ heap'[r].pc = "inflight"

\* C1: schedule overwrites the pending slot (last write wins, nothing is queued)
\* and the runner's take starts exactly one invocation, of the slot's content,
\* leaving the slot empty: of schedule(id, f1); schedule(id, f2) only f2 runs
C1_LastWriteWins ==
    [][ /\ \A n \in Names, inv \in Invocations :
             (Schedule(n, inv, TRUE) /\ running) =>
                /\ Get(n)' # 0
                /\ heap'[Get(n)'].next = inv
                /\ Get(n) # 0 =>
                     /\ Get(n)' = Get(n)
                     /\ heap'[Get(n)] = [heap[Get(n)] EXCEPT !.next = inv]
                /\ \A r \in 1..MaxRunners : ~Invokes(r)
        /\ \A r \in 1..MaxRunners :
             Invokes(r) =>
                /\ heap[r].next # None
                /\ heap'[r].cur = heap[r].next
                /\ heap'[r].next = None
                /\ \A q \in 1..MaxRunners : q # r => heap'[q] = heap[q]
      ]_vars

\* f2 was pushed over a pending f1 and waits for a runner that will take it
C1_Witness ==
    /\ overwrote = F1
    /\ running
    /\ \E r \in 1..MaxRunners :
         /\ Registered(r)
         /\ heap[r].pc = "loop"
         /\ ~heap[r].stop
         /\ heap[r].next = F2

C3_StartOnce == starts_since_stop <= 1

\* C4: a stop() step ends with running false, every registered runner flagged,
\* exactly one stop event sent and the counters at zero
C4_StopPostcondition ==
    [][ Stop =>
          /\ ~running'
          /\ \A k \in 1..Len(runners) : heap'[runners[k]].stop
          /\ sink' = <<"stop">>
          /\ phase' = 0 /\ current_beat' = 0 /\ elapsed_bars' = 0
          /\ tick_time' = 0 /\ delta' = 0
      ]_vars

\* C5: a stop() step leaves bpm, beat_per_bar and the runner table as they were
C5_StopKeepsTable ==
    [][ Stop => (runners' = runners /\ bpm' = bpm /\ beat_per_bar' = beat_per_bar)
      ]_vars

\* C6: schedule of a coroutine function while running is false raises
\* RuntimeError and changes neither the table, nor a runner, nor the clock
C6_ScheduleNotRunning ==
    [][ \A n \in Names, inv \in Invocations :
          (Schedule(n, inv, TRUE) /\ ~running) =>
             /\ err' = "RuntimeError"
             /\ UNCHANGED <<runners, heap, clockVars, start_tasks, loops>>
      ]_vars

\* schedule has failed in the window between start() and its _send_start task
C6_Witness == err = "RuntimeError" /\ ~running /\ start_tasks > 0

\* C7: remove raises KeyError exactly when no runner is registered under the
\* name, changing nothing; otherwise it sets the runner's stop flag and nothing
\* else: the table entry and the pending invocation stay
C7_RemoveUnknown ==
    [][ \A n \in Names :
          Remove(n) =>
             /\ (err' = "KeyError") <=> (Get(n) = 0)
             /\ runners' = runners
             /\ Get(n) = 0 => heap' = heap
             /\ Get(n) # 0 =>
                  heap' = [heap EXCEPT ![Get(n)] = [heap[Get(n)] EXCEPT !.stop = TRUE]]
      ]_vars

\* remove has failed for a name that is not registered while another name is
C7_Witness == err = "KeyError" /\ runners # <<>>

\* a tick: the only step that increments tick_time
TickStep == tick_time' = tick_time + 1

\* C8: on every tick phase moves to its cyclic successor in 1..ppqn; phase
\* becomes 1, and current_beat moves to its cyclic successor in
\* 1..beat_per_bar, on the ticks numbered 1 modulo ppqn and on no other;
\* elapsed_bars grows by one on the ticks numbered 1 modulo ppqn*beat_per_bar,
\* after which phase = 1 and current_beat = 1, and on no other
C8_TickCycle ==
    [][ TickStep =>
          /\ phase' = (phase % ppqn) + 1
          /\ (phase' = 1) <=> (tick_time % ppqn = 0)
          /\ current_beat' = IF phase' = 1 THEN (current_beat % beat_per_bar) + 1
                                           ELSE current_beat
          /\ elapsed_bars' = IF phase' = 1 /\ current_beat' = 1
                               THEN elapsed_bars + 1 ELSE elapsed_bars
          /\ (elapsed_bars' = elapsed_bars + 1) <=>
                (tick_time % (ppqn * beat_per_bar) = 0)
      ]_vars

\* the first tick of the second bar, in a bar of several beats
C8_Witness ==
    /\ beat_per_bar > 1
    /\ tick_time = ppqn * beat_per_bar + 1
    /\ elapsed_bars = 2

\* C9 as stated: beat_per_bar*ppqn ticks after a clean start the clock is at
\* elapsed_bars = 1, phase = 1, current_beat = 1
C9_Original ==
    tick_time = beat_per_bar * ppqn =>
        (elapsed_bars = 1 /\ phase = 1 /\ current_beat = 1)

\* C9 amended: beat_per_bar*ppqn ticks after a clean start the clock is at the
\* last pulse of the first bar: elapsed_bars = 1, phase = ppqn and
\* current_beat = beat_per_bar
C9_FirstBarEnd ==
    tick_time = beat_per_bar * ppqn =>
        (elapsed_bars = 1 /\ phase = ppqn /\ current_beat = beat_per_bar)

\* 192 ticks after a clean start of the default clock
C9_Witness == beat_per_bar = DefaultBeatPerBar /\ tick_time = beat_per_bar * ppqn

\* C10 as stated: phase and current_beat are always inside their cyclic ranges
C10_Original == phase \in 1..ppqn /\ current_beat \in 1..beat_per_bar

\* C10 amended: phase and current_beat are 0 as long as no tick has happened
\* since construction or the last stop/reset, and inside 1..ppqn and
\* 1..beat_per_bar from the first tick on
C10_CyclicRanges ==
    IF tick_time = 0
      THEN phase = 0 /\ current_beat = 0
      ELSE phase \in 1..ppqn /\ current_beat \in 1..beat_per_bar

\* the tick of a run_clock task that was asleep when stop() zeroed the counters
C10_Witness == tick_time = 1 /\ phase = 1 /\ current_beat = 1 /\ ~running

\* C11: set_bpm(v) makes v the tempo exactly when 1 < v < 800 and then
\* recomputes tick_duration from it; any other v, 1 and 800 included, raises
\* nothing and leaves every field of the clock as it was; so the tempo never
\* leaves the open interval (1, 800).
C11_SetBpmRange ==
    /\ [][\A v \in TimingBpmInputs :
            SetBpm(v) =>
              /\ err' = "none"
              /\ IF 1 < v /\ v < 800
                   THEN /\ bpm' = v
                        /\ tick_duration' = (60000000 \div (v * ppqn)) - delta
                   ELSE UNCHANGED <<bpm, tick_duration>>
              /\ UNCHANGED <<running, delta, phase, phase_gen, beat_per_bar,
                             current_beat, current_beat_gen, elapsed_bars,
                             tick_time, runners, start_tasks, loops, heap>>]_vars
    /\ [](1 < bpm /\ bpm < 800)

\* the largest accepted tempo was set while the loop was asleep
C11_Witness ==
    /\ bpm = 799
    /\ tick_duration = 60000000 \div (799 * ppqn)
    /\ \E i \in 1..MaxLoops : loops[i].pc = "sleep"

\* a step in which the task awaiting `op` is resumed: the call returns
Resumes(op) == waiter'.op = op /\ waiter'.pc = "resumed" /\ waiter.pc # "resumed"

C13_NapUntilTarget ==
    /\ [][/\ \A q \in NapDurations :
                NapCall(q) => waiter'.mark = tick_time + (q * ppqn) \div 4
          /\ Resumes("nap") => tick_time' >= waiter'.mark
          /\ NapPoll /\ tick_time >= waiter.mark => waiter'.pc = "resumed"]_vars
    /\ (waiter.op = "nap" /\ waiter.pc = "waiting" /\ running)
          ~> (waiter.pc = "resumed")

\* a nap of one beat begun after the first tick has returned
C13_Witness ==
    /\ waiter.op = "nap"
    /\ waiter.pc = "resumed"
    /\ waiter.mark = ppqn + 1
    /\ tick_time >= waiter.mark

\* C14: an exception raised by a sink call never keeps the tick loop from
\* running: whenever the task created by start() has run, running is TRUE,
\* whatever the sink did with the start message.
C14_SinkFailureContained ==
    [][start_tasks' < start_tasks => running']_vars

\* C15: in every state between two steps (wherever a task is suspended), under
\* any interleaving of ticks with start, stop and reset, the counters agree:
\* all four are 0, or tick_time >= 1 and phase, current_beat and elapsed_bars
\* are the values that tick_time fixes.
C15_CountersConsistent ==
    IF tick_time = 0
      THEN phase = 0 /\ current_beat = 0 /\ elapsed_bars = 0
      ELSE /\ phase = ((tick_time - 1) % ppqn) + 1
           /\ current_beat = (((tick_time - 1) \div ppqn) % beat_per_bar) + 1
           /\ elapsed_bars = ((tick_time - 1) \div (ppqn * beat_per_bar)) + 1

\* two run_clock tasks asleep at once, in the second beat since the last reset
C15_Witness ==
    /\ \A i \in 1..2 : loops[i].pc = "sleep"
    /\ tick_time > ppqn
    /\ current_beat = IF beat_per_bar = 1 THEN 1 ELSE 2

\* C16: at most one run_clock task is alive at any time, whatever the
\* interleaving of start(), stop() and reset() with the tasks: never two
\* loops asleep in their per-tick wait, both about to advance tick_time.
C16_OneTickLoop ==
    Cardinality({i \in 1..MaxLoops : loops[i].pc = "sleep"}) <= 1

\* C17: once stop() has returned, and until start() is called again, the
\* counters stay at 0 and no clock pulse is sent: a tick that was asleep when
\* stop() was called changes nothing when it wakes up.
C17_StoppedStaysZero ==
    (~running /\ start_tasks = 0) =>
        /\ tick_time = 0 /\ phase = 0 /\ current_beat = 0 /\ elapsed_bars = 0
        /\ sink # <<"clock">>

\* C19: a tick dispatches a clock pulse exactly when the phase it finds after
\* its sleep, before advancing it, is even; the counters are advanced in the
\* same step as the dispatch, without waiting for the sink; a whole beat of
\* ppqn ticks is ppqn / 2 pulses, the phase then being odd on every second
\* tick.
C19_PulseOnEvenPhase ==
    [][TickStep =>
         /\ (sink' = <<"clock">>) <=> (phase % 2 = 0)
         /\ sink' \in {<<>>, <<"clock">>}
         /\ phase' = (phase % ppqn) + 1
         /\ (phase' % 2 = 0) <=> (phase % 2 = 1)]_vars

\* a tick late in a bar found an even phase and sent its pulse
C19_Witness ==
    /\ sink = <<"clock">>
    /\ phase = ppqn - 1
    /\ tick_time > ppqn

\* C18: a schedule that returns without error is never lost, also when
\* remove(name) came first and the runner has not yet reached its iteration
\* boundary: the invocation is left with a runner that will take it, that
\* is, one whose stop flag is not set. (A flagged runner's next step at its
\* boundary is to deregister and exit, whatever is pending: C2.)
C18_ScheduleNotLost ==
    [][\A n \in Names :
         Schedule(n, F1, TRUE) /\ err' = "none" =>
            /\ Get(n)' # 0
            /\ heap'[Get(n)'].next = F1
            /\ ~heap'[Get(n)'].stop]_vars

\* C20: the wait of every tick is the nominal duration (60 / bpm) / ppqn, at
\* the bpm current when the tick begins, minus the error measured on the
\* previous tick, which is what that tick's sleep took minus the wait it was
\* given; a first tick begun with delta = 0 waits exactly the nominal
\* duration. The tempo may change between and during ticks. Durations are in
\* microseconds.
C20_FirstOrderDrift ==
    [][/\ \A i \in 1..MaxLoops, j \in Jitters :
            Tick(i, j, TimingTicks) /\ running =>
               loops'[i].slept =
                  (60000000 \div (bpm * ppqn))
                    - (Elapsed(loops[i].slept, j) - loops[i].slept)
       /\ \A i \in 1..MaxLoops :
            RunClock(i) /\ running /\ delta = 0 =>
               loops'[i].slept = 60000000 \div (bpm * ppqn)]_vars

====
